---------------------------- MODULE Spec2Model ----------------------------
(* A model of zino's bootstrap (init_event_loop), its privilege drop       *)
(* (switch_to_user) and the debounced rescheduling of the state dump job   *)
(* (reschedule_dump_state), translated from src/src/zino/zino.py, and of   *)
(* the SNMP session layer of src/src/zino/snmp.py.                         *)
(* Times are in seconds.                                                   *)
EXTENDS Integers, Sequences, FiniteSets, TLC

VARIABLES
    args,           \* the parsed command line: [trap_port, user, stop_in, config_file]
    pc,             \* position of the bootstrap inside main and init_event_loop
    config,         \* main's local config: "unset", "file" or "None"
    main_log,       \* the steps of main that ran, each with its outcome
    snmp_local,     \* _local.snmp_engine of every thread, 0 while unset
    snmp_engines,   \* the number of SnmpEngine objects constructed
    snmp_handles,   \* the engines _get_engine has returned to every thread
    snmp_get,       \* the SNMP.get call of every thread, in flight or finished
    in_flight,      \* reschedule_dump_state calls between their statements
    last_write,     \* what the latest job.modify of such a call overwrote
    listener,       \* the trap receiver's socket: "closed" or "open"
    exit_code,      \* argument of sys.exit, -1 while the process has not exited
    job_log,        \* the calls made on the scheduler and observer lists, in order
    identity,       \* the process identity [uid, gid, groups]
    switch_log,     \* one record per switch_to_user call, in call order
    now,            \* the wall clock
    next_run_time,  \* next_run_time of the job STATE_DUMP_JOB_ID, -1 while absent
    last_call,      \* what the latest reschedule_dump_state call read and did
    burst,          \* the run of reschedule_dump_state calls being followed
    runs            \* the latest two executions of the state dump job

mainVars == <<config, main_log>>
snmpVars == <<snmp_local, snmp_engines, snmp_handles, snmp_get>>
raceVars == <<in_flight, last_write>>

bootVars == <<args, pc, listener, exit_code, job_log>>
privVars == <<identity, switch_log>>
dumpVars == <<now, next_run_time, last_call, burst, runs>>
vars == <<args, pc, listener, exit_code, job_log, identity, switch_log,
          now, next_run_time, last_call, burst, runs,
          config, main_log, snmp_local, snmp_engines, snmp_handles, snmp_get,
          in_flight, last_write>>

NoUser == "-"
NoTime == -1

-----------------------------------------------------------------------------
(* The user and group databases read by pwd.getpwnam and grp.getgrall.     *)

passwd ==
    [root   |-> [pw_uid |-> 0, pw_gid |-> 0],
     zino   |-> [pw_uid |-> 1, pw_gid |-> 1],
     nobody |-> [pw_uid |-> 2, pw_gid |-> 2],
     backup |-> [pw_uid |-> 3, pw_gid |-> 1]]

\* gr_mem of every group: "nobody" is listed as a member of no group
gr_mem ==
    (0 :> {"root"}) @@ (1 :> {}) @@ (2 :> {}) @@ (3 :> {"zino", "backup"})
    @@ (4 :> {"zino", "root"})

\* the names switch_to_user is called with; "nosuchuser" is not in passwd
Usernames == {"root", "zino", "nobody", "backup", "nosuchuser"}

RootIdentity == [uid |-> 0, gid |-> 0, groups |-> {0, 4}]
ZinoIdentity == [uid |-> 1, gid |-> 1, groups |-> {3, 4}]

\* the call of the setgid/setgroups/setuid sequence that the OS refuses for a
\* reason other than missing privilege (EAGAIN, EINVAL, ENOMEM), if any
Failures == {"none", "setgid", "setgroups", "setuid"}

os_setgid(id, g, fail) ==
    IF fail # "setgid" /\ (id.uid = 0 \/ g = id.gid)
    THEN [id |-> [id EXCEPT !.gid = g], ok |-> TRUE]
    ELSE [id |-> id, ok |-> FALSE]

os_setgroups(id, gids, fail) ==
    IF fail # "setgroups" /\ id.uid = 0
    THEN [id |-> [id EXCEPT !.groups = gids], ok |-> TRUE]
    ELSE [id |-> id, ok |-> FALSE]

os_setuid(id, u, fail) ==
    IF fail # "setuid" /\ (id.uid = 0 \/ u = id.uid)
    THEN [id |-> [id EXCEPT !.uid = u], ok |-> TRUE]
    ELSE [id |-> id, ok |-> FALSE]

Syscall(name, ok) == [call |-> name, ok |-> ok]

\* [g.gr_gid for g in grp.getgrall() if username in g.gr_mem]
member_gids(username) == {g \in DOMAIN gr_mem : username \in gr_mem[g]}

\* a try block that puts the old identity back when a call fails
change_ids_rollback(id, username, user, fail) ==
    LET r1 == os_setgid(id, user.pw_gid, fail)
        c1 == <<Syscall("setgid", r1.ok)>>
        gids == member_gids(username)
    IN
    IF ~r1.ok
    THEN [id |-> id, calls |-> c1, ret |-> FALSE]
    ELSE
    LET r2 == IF gids # {} THEN os_setgroups(r1.id, gids, fail)
                           ELSE [id |-> r1.id, ok |-> TRUE]
        c2 == IF gids # {} THEN Append(c1, Syscall("setgroups", r2.ok)) ELSE c1
    IN
    IF ~r2.ok
    THEN [id |-> id, calls |-> c2, ret |-> FALSE]
    ELSE
    LET r3 == os_setuid(r2.id, user.pw_uid, fail)
        c3 == Append(c2, Syscall("setuid", r3.ok))
    IN [id |-> IF r3.ok THEN r3.id ELSE id, calls |-> c3, ret |-> r3.ok]

\* switch_to_user from "try: os.setgid(user.pw_gid)" on: the identity it
\* leaves, the syscalls it made and its result
change_ids(id, username, user, fail) ==
    LET r1 == os_setgid(id, user.pw_gid, fail)
        c1 == <<Syscall("setgid", r1.ok)>>
        gids == member_gids(username)
    IN
    IF ~r1.ok
    THEN [id |-> r1.id, calls |-> c1, ret |-> FALSE]
    ELSE
    LET r2 == IF gids # {} THEN os_setgroups(r1.id, gids, fail)
                           ELSE [id |-> r1.id, ok |-> TRUE]
        c2 == IF gids # {} THEN Append(c1, Syscall("setgroups", r2.ok)) ELSE c1
    IN
    IF ~r2.ok
    THEN [id |-> r2.id, calls |-> c2, ret |-> FALSE]
    ELSE
    LET r3 == os_setuid(r2.id, user.pw_uid, fail)
        c3 == Append(c2, Syscall("setuid", r3.ok))
    IN [id |-> r3.id, calls |-> c3, ret |-> r3.ok]

\* a switch_to_user that falls back to "nobody" when the user is unknown
switch_to_user_fallback(id, username, fail) ==
    LET user == IF username \in DOMAIN passwd THEN passwd[username]
                                              ELSE passwd["nobody"] IN
    IF id.uid = user.pw_uid
    THEN [id |-> id, calls |-> <<>>, ret |-> TRUE]
    ELSE change_ids(id, username, user, fail)

\* a switch_to_user without the "already running as the given user" return
switch_to_user_always(id, username, fail) ==
    IF username \notin DOMAIN passwd
    THEN [id |-> id, calls |-> <<>>, ret |-> FALSE]
    ELSE change_ids(id, username, passwd[username], fail)

\* switch_to_user: the identity it leaves, the syscalls it made and its result
switch_to_user(id, username, fail) ==
    IF username \notin DOMAIN passwd
    THEN [id |-> id, calls |-> <<>>, ret |-> FALSE]
    ELSE
    LET user == passwd[username] IN
    IF id.uid = user.pw_uid
    THEN [id |-> id, calls |-> <<>>, ret |-> TRUE]
    ELSE change_ids(id, username, user, fail)

\* one call of switch_to_user by the running process
CallSwitchToUser(username, fail) ==
    LET r == switch_to_user(identity, username, fail) IN
    /\ identity' = r.id
    /\ switch_log' = Append(switch_log,
           [username |-> username, before |-> identity, after |-> r.id,
            calls |-> r.calls, ret |-> r.ret])

-----------------------------------------------------------------------------
(* The parts of the state that main, the SNMP sessions and the statements  *)
(* of reschedule_dump_state work on, and their values while untouched.     *)

MaxThreads == 2
MaxRaceTime == 13
MaxRaceCalls == 1
MaxGets == 2
MaxErrorIndex == 2

\* the steps of main before init_event_loop, all of them passed
Step(name, outcome) == [step |-> name, outcome |-> outcome]
MainSteps ==
    <<Step("load_config", "ok"), Step("apply_logging_config", "ok"),
      Step("check_secrets_file", "ok"), Step("init_backend", "ok"),
      Step("load_state", "ok")>>

MainDone ==
    /\ config = "file"
    /\ main_log = MainSteps

\* the threads that use SNMP sessions
Threads == 1..MaxThreads

\* snmp_get of a thread that has not called SNMP.get
NoGet == [pc |-> "idle", n |-> 0, hcounters |-> FALSE, port |-> 0, engine |-> 0,
          mpModel |-> -1, requests |-> 0, outcome |-> "-", error_index |-> 0,
          ret |-> "-", logged |-> "-"]

SnmpIdle ==
    /\ snmp_local = [t \in Threads |-> 0]
    /\ snmp_engines = 0
    /\ snmp_handles = [t \in Threads |-> {}]
    /\ snmp_get = [t \in Threads |-> NoGet]

\* the two observers through which reschedule_dump_state is called
CallSites == {"commit", "pm_change"}

\* in_flight of a call site with no call between its statements
NoFlight == [pc |-> "idle", n |-> 0, next_run |-> NoTime, read |-> NoTime]
\* last_write: the next_run_time the call had read, the one the job had when
\* job.modify ran, and the one job.modify wrote
NoWrite == [via |-> "-", read |-> NoTime, found |-> NoTime, wrote |-> NoTime]

RaceIdle ==
    /\ in_flight = [v \in CallSites |-> NoFlight]
    /\ last_write = NoWrite

-----------------------------------------------------------------------------
(* The state dump job and its debounced rescheduling.                      *)

STATE_DUMP_JOB_ID == "zino.dump_state"
MINIMUM_STATE_DUMP_INTERVAL == 10
EACCES == 13

\* state.config.persistence.period, in minutes
PersistencePeriod == 1
\* seconds the job has been waiting, unobserved, when the clock starts
QuietTimes == {0, 48}
MaxTime == 24
\* the scheduler wakes up at most this long after a job is due
MaxLate == 1
MaxBurst == 3
MaxSwitchCalls == 2

\* the interval of the trigger given to add_job: minutes=period
dump_interval == PersistencePeriod * 60

\* last_call: when the call was made, the next_run_time it read and left,
\* whether it called job.modify, and whether the job has run since
NoCall == [at |-> NoTime, read |-> NoTime, after |-> NoTime, modified |-> FALSE,
           via |-> "-", fired |-> FALSE]
\* burst: calls each made less than MINIMUM_STATE_DUMP_INTERVAL after the one
\* before: the times of the first and last call, their number, the
\* next_run_time T before the first and after the last call, the job.modify
\* calls made, the observers used, and whether the job ran between two calls
NoBurst == [first |-> NoTime, last |-> NoTime, n |-> 0, T |-> NoTime, after |-> NoTime,
            mods |-> <<>>, vias |-> {}, fired |-> FALSE]
NoRuns == [prev |-> NoTime, last |-> NoTime, forwarded |-> FALSE, pending |-> FALSE]

\* a reschedule_dump_state whose comparison is turned around
reschedule_dump_state_later(nrt, t) ==
    LET next_run == t + MINIMUM_STATE_DUMP_INTERVAL IN
    IF nrt < next_run
    THEN [next_run_time |-> next_run, modified |-> TRUE]
    ELSE [next_run_time |-> nrt, modified |-> FALSE]

\* a reschedule_dump_state that calls job.modify whatever the job's time is
reschedule_dump_state_always(nrt, t) ==
    [next_run_time |-> t + MINIMUM_STATE_DUMP_INTERVAL, modified |-> TRUE]

\* a reschedule_dump_state that compares with >= instead of >
reschedule_dump_state_geq(nrt, t) ==
    LET next_run == t + MINIMUM_STATE_DUMP_INTERVAL IN
    IF nrt >= next_run
    THEN [next_run_time |-> next_run, modified |-> TRUE]
    ELSE [next_run_time |-> nrt, modified |-> FALSE]

\* a reschedule_dump_state that forgets to add the minimum interval
reschedule_dump_state_nofloor(nrt, t) ==
    LET next_run == t IN
    IF nrt > next_run
    THEN [next_run_time |-> next_run, modified |-> TRUE]
    ELSE [next_run_time |-> nrt, modified |-> FALSE]

\* reschedule_dump_state at time t on a job whose next_run_time is nrt:
\* the next_run_time it leaves and whether it called job.modify
reschedule_dump_state(nrt, t) ==
    LET next_run == t + MINIMUM_STATE_DUMP_INTERVAL IN
    IF nrt > next_run
    THEN [next_run_time |-> next_run, modified |-> TRUE]
    ELSE [next_run_time |-> nrt, modified |-> FALSE]

\* a setup_initial_job_schedule that adds the observers before the dump job
RegistrationsObserversFirst(stop_in) ==
    <<"scheduler.start",
      "add_job:load_and_schedule_polldevs",
      "add_event_observer:reschedule_dump_state_on_commit",
      "add_pm_observer:reschedule_dump_state_on_pm_change",
      "add_job:" \o STATE_DUMP_JOB_ID,
      "add_job:update_pm_states",
      "add_job:age_flapping_states",
      "add_job:delete_expired_events",
      "add_job:log_snmp_session_stats">>
    \o (IF stop_in # 0 THEN <<"add_job:loop.stop">> ELSE <<>>)

\* the full registration sequence of setup_initial_job_schedule
Registrations(stop_in) ==
    <<"scheduler.start",
      "add_job:load_and_schedule_polldevs",
      "add_job:" \o STATE_DUMP_JOB_ID,
      "add_job:update_pm_states",
      "add_job:age_flapping_states",
      "add_event_observer:reschedule_dump_state_on_commit",
      "add_pm_observer:reschedule_dump_state_on_pm_change",
      "add_job:delete_expired_events",
      "add_job:log_snmp_session_stats">>
    \o (IF stop_in # 0 THEN <<"add_job:loop.stop">> ELSE <<>>)

\* the entries of job_log that put the two observers on their lists
ObserverEntries ==
    {"add_event_observer:reschedule_dump_state_on_commit",
     "add_pm_observer:reschedule_dump_state_on_pm_change"}

ObserversRegistered == \E i \in DOMAIN job_log : job_log[i] \in ObserverEntries

\* the observers are on the lists and the event loop delivers notifications
ObserversLive ==
    /\ pc = "run_forever"
    /\ ObserversRegistered

\* a mutation notification reaches reschedule_dump_state through observer via
Notify(via) ==
    /\ ObserversLive
    /\ IF next_run_time = NoTime
       THEN \* get_job returns None: job.next_run_time raises AttributeError
            /\ last_call' = [NoCall EXCEPT !.at = now, !.via = via]
            /\ UNCHANGED <<next_run_time, runs, burst>>
       ELSE
       LET r == reschedule_dump_state(next_run_time, now)
           m == IF r.modified THEN <<[from |-> next_run_time, to |-> r.next_run_time]>>
                              ELSE <<>>
       IN
       /\ next_run_time' = r.next_run_time
       /\ last_call' = [at |-> now, read |-> next_run_time, after |-> r.next_run_time,
                        modified |-> r.modified, via |-> via, fired |-> FALSE]
       /\ runs' = [runs EXCEPT !.pending = runs.pending \/ r.modified]
       /\ \/ burst' = [first |-> now, last |-> now, n |-> 1, T |-> next_run_time,
                       after |-> r.next_run_time, mods |-> m, vias |-> {via},
                       fired |-> FALSE]
          \/ /\ burst.n \in 1..(MaxBurst - 1)
             /\ now - burst.last < MINIMUM_STATE_DUMP_INTERVAL
             /\ burst' = [burst EXCEPT !.last = now, !.n = @ + 1,
                                       !.after = r.next_run_time, !.mods = @ \o m,
                                       !.vias = @ \cup {via},
                                       !.fired = @ \/ last_call.fired]
    /\ UNCHANGED <<now, bootVars, privVars, mainVars, snmpVars, raceVars>>

reschedule_dump_state_on_commit == Notify("commit")

reschedule_dump_state_on_pm_change == Notify("pm_change")

\* the interval trigger's next fire time after a run that was due at nrt
next_fire_time(nrt, t) ==
    nrt + (((t - nrt) \div dump_interval) + 1) * dump_interval

\* the scheduler runs dump_state_to_file once it is due
RunDumpJob ==
    /\ pc = "run_forever"
    /\ next_run_time # NoTime
    /\ now >= next_run_time
    /\ next_run_time' = next_fire_time(next_run_time, now)
    /\ runs' = [prev |-> runs.last, last |-> now, forwarded |-> runs.pending,
                pending |-> FALSE]
    /\ last_call' = [last_call EXCEPT !.fired = (last_call.at # NoTime)]
    /\ UNCHANGED <<now, burst, bootVars, privVars, mainVars, snmpVars, raceVars>>

TickUpTo(limit) ==
    /\ pc = "run_forever"
    /\ now < limit
    /\ next_run_time # NoTime => now < next_run_time + MaxLate
    /\ now' = now + 1
    /\ UNCHANGED <<next_run_time, last_call, burst, runs, bootVars, privVars, mainVars, snmpVars, raceVars>>

Tick == TickUpTo(MaxTime)

InitDebounce ==
    /\ args = [trap_port |-> 0, user |-> NoUser, stop_in |-> 0, config_file |-> FALSE]
    /\ pc = "run_forever"
    /\ listener = "closed"
    /\ exit_code = -1
    /\ job_log = Registrations(0)
    /\ identity = ZinoIdentity
    /\ switch_log = <<>>
    /\ now = 0
    /\ next_run_time \in {dump_interval - q : q \in QuietTimes}
    /\ last_call = NoCall
    /\ burst = NoBurst
    /\ runs = NoRuns
    /\ MainDone
    /\ SnmpIdle
    /\ RaceIdle

NextDebounce ==
    \/ reschedule_dump_state_on_commit
    \/ reschedule_dump_state_on_pm_change
    \/ RunDumpJob
    \/ Tick

SpecDebounce == InitDebounce /\ [][NextDebounce]_vars

-----------------------------------------------------------------------------
(* The bootstrap: init_event_loop, from its first statement.               *)

TrapPorts == {0, 162, 1162}

\* trap_receiver.open() on a port below 1024 needs root
may_bind(id, port) == id.uid = 0 \/ port >= 1024

\* an init_event_loop that logs the PermissionError and carries on
OpenTrapListenerCarriesOn ==
    /\ pc = "open_listener"
    /\ listener' = IF args.trap_port # 0 /\ may_bind(identity, args.trap_port)
                   THEN "open" ELSE listener
    /\ pc' = "drop_privileges"
    /\ UNCHANGED <<args, exit_code, job_log, privVars, dumpVars, mainVars, snmpVars, raceVars>>

\* if args.trap_port: ... loop.run_until_complete(trap_receiver.open())
OpenTrapListener ==
    /\ pc = "open_listener"
    /\ IF args.trap_port # 0
       THEN IF may_bind(identity, args.trap_port)
            THEN /\ listener' = "open"
                 /\ pc' = "drop_privileges"
                 /\ UNCHANGED exit_code
            ELSE \* PermissionError: sys.exit(errno.EACCES)
                 /\ exit_code' = EACCES
                 /\ pc' = "exited"
                 /\ UNCHANGED listener
       ELSE /\ pc' = "drop_privileges"
            /\ UNCHANGED <<listener, exit_code>>
    /\ UNCHANGED <<args, job_log, privVars, dumpVars, mainVars, snmpVars, raceVars>>

\* an init_event_loop that switches user before it opens the trap listener
DropPrivilegesFirst ==
    /\ \/ /\ pc = "open_listener"
          /\ switch_log = <<>>
          /\ args.user # NoUser
          /\ \E fail \in Failures : CallSwitchToUser(args.user, fail)
          /\ pc' = pc
       \/ /\ pc = "drop_privileges"
          /\ pc' = "setup_jobs"
          /\ UNCHANGED privVars
    /\ UNCHANGED <<args, listener, exit_code, job_log, dumpVars, mainVars, snmpVars, raceVars>>

\* if args.user: switch_to_user(args.user)
DropPrivileges ==
    /\ pc = "drop_privileges"
    /\ IF args.user # NoUser
       THEN \E fail \in Failures : CallSwitchToUser(args.user, fail)
       ELSE UNCHANGED privVars
    /\ pc' = "setup_jobs"
    /\ UNCHANGED <<args, listener, exit_code, job_log, dumpVars, mainVars, snmpVars, raceVars>>

\* setup_initial_job_schedule(loop, args): the dump job gets no next_run_time
\* argument, so its first run is one interval after it is added
setup_initial_job_schedule ==
    /\ pc = "setup_jobs"
    /\ job_log' = job_log \o Registrations(args.stop_in)
    /\ next_run_time' = now + dump_interval
    /\ pc' = "serve"
    /\ UNCHANGED <<args, listener, exit_code, privVars, now, last_call, burst, runs, mainVars, snmpVars, raceVars>>

\* server = ZinoServer(...); server.serve()
Serve ==
    /\ pc = "serve"
    /\ pc' = "run_forever"
    /\ UNCHANGED <<args, listener, exit_code, job_log, privVars, dumpVars, mainVars, snmpVars, raceVars>>

\* loop.run_forever() ends on KeyboardInterrupt, SystemExit or loop.stop
RunForeverEnds ==
    /\ pc = "run_forever"
    /\ pc' = "returned"
    /\ UNCHANGED <<args, listener, exit_code, job_log, privVars, dumpVars, mainVars, snmpVars, raceVars>>

Init ==
    /\ args \in [trap_port : TrapPorts, user : {NoUser} \cup Usernames, stop_in : {0, 30},
                 config_file : BOOLEAN]
    /\ pc = "open_listener"
    /\ listener = "closed"
    /\ exit_code = -1
    /\ job_log = <<>>
    /\ identity \in {RootIdentity, ZinoIdentity}
    /\ switch_log = <<>>
    /\ now = 0
    /\ next_run_time = NoTime
    /\ last_call = NoCall
    /\ burst = NoBurst
    /\ runs = NoRuns
    /\ MainDone
    /\ SnmpIdle
    /\ RaceIdle

Next ==
    \/ OpenTrapListener
    \/ DropPrivileges
    \/ setup_initial_job_schedule
    \/ Serve
    \/ RunForeverEnds
    \/ reschedule_dump_state_on_commit
    \/ reschedule_dump_state_on_pm_change

Spec == Init /\ [][Next]_vars

-----------------------------------------------------------------------------
(* switch_to_user on its own, called with any username from any identity.  *)

SwitchToUser ==
    /\ pc = "switch_to_user"
    /\ Len(switch_log) < MaxSwitchCalls
    /\ \E username \in Usernames, fail \in Failures : CallSwitchToUser(username, fail)
    /\ UNCHANGED <<bootVars, dumpVars, mainVars, snmpVars, raceVars>>

InitSwitch ==
    /\ args = [trap_port |-> 0, user |-> NoUser, stop_in |-> 0, config_file |-> FALSE]
    /\ pc = "switch_to_user"
    /\ listener = "closed"
    /\ exit_code = -1
    /\ job_log = <<>>
    /\ identity \in {RootIdentity, ZinoIdentity}
    /\ switch_log = <<>>
    /\ now = 0
    /\ next_run_time = NoTime
    /\ last_call = NoCall
    /\ burst = NoBurst
    /\ runs = NoRuns
    /\ MainDone
    /\ SnmpIdle
    /\ RaceIdle

NextSwitch == SwitchToUser

SpecSwitch == InitSwitch /\ [][NextSwitch]_vars

-----------------------------------------------------------------------------
(* main, from load_config to the call of init_event_loop.                  *)

\* what read_configuration does: return the configuration or raise
ReadOutcomes == {"ok", "OSError", "InvalidConfigurationError", "ValidationError"}

\* a load_config whose handler of InvalidConfigurationError does not exit
load_config_lenient(outcome, config_file) ==
    CASE outcome = "ok" -> "file"
      [] outcome = "OSError" -> IF config_file THEN "exit" ELSE "None"
      [] outcome = "InvalidConfigurationError" -> "None"
      [] outcome = "ValidationError" -> "exit"

\* load_config: the configuration ("file"), None, or "exit" for sys.exit(1);
\* an OSError exits only when --config-file was given
load_config(outcome, config_file) ==
    CASE outcome = "ok" -> "file"
      [] outcome = "OSError" -> IF config_file THEN "exit" ELSE "None"
      [] outcome = "InvalidConfigurationError" -> "exit"
      [] outcome = "ValidationError" -> "exit"

\* config = load_config(args); if config: state.config = config
LoadConfig ==
    /\ pc = "load_config"
    /\ \E outcome \in ReadOutcomes :
          LET r == load_config(outcome, args.config_file) IN
          /\ main_log' = Append(main_log, Step("load_config", outcome))
          /\ IF r = "exit"
             THEN /\ pc' = "exited"
                  /\ exit_code' = 1
                  /\ UNCHANGED config
             ELSE /\ pc' = "apply_logging_config"
                  /\ config' = r
                  /\ UNCHANGED exit_code
    /\ UNCHANGED <<args, listener, job_log, privVars, dumpVars, snmpVars, raceVars>>

\* apply_logging_config(state.config.logging): ValueError is sys.exit(1)
ApplyLoggingConfig ==
    /\ pc = "apply_logging_config"
    /\ \E outcome \in {"ok", "ValueError"} :
          /\ main_log' = Append(main_log, Step("apply_logging_config", outcome))
          /\ IF outcome = "ok"
             THEN pc' = "check_secrets_file" /\ UNCHANGED exit_code
             ELSE pc' = "exited" /\ exit_code' = 1
    /\ UNCHANGED <<args, listener, job_log, config, privVars, dumpVars, snmpVars, raceVars>>

\* file_is_world_readable(secrets_file): a warning, or sys.exit(1) on OSError
CheckSecretsFile ==
    /\ pc = "check_secrets_file"
    /\ \E outcome \in {"ok", "OSError"} :
          /\ main_log' = Append(main_log, Step("check_secrets_file", outcome))
          /\ IF outcome = "ok"
             THEN pc' = "init_backend" /\ UNCHANGED exit_code
             ELSE pc' = "exited" /\ exit_code' = 1
    /\ UNCHANGED <<args, listener, job_log, config, privVars, dumpVars, snmpVars, raceVars>>

\* import_snmp_backend(config.snmp.backend): reads the local config, which is
\* None when load_config returned None; the AttributeError is not caught
InitBackend ==
    /\ pc = "init_backend"
    /\ IF config = "None"
       THEN /\ main_log' = Append(main_log, Step("init_backend", "AttributeError"))
            /\ pc' = "crashed"
            /\ exit_code' = 1
       ELSE /\ main_log' = Append(main_log, Step("init_backend", "ok"))
            /\ pc' = "load_state"
            /\ UNCHANGED exit_code
    /\ UNCHANGED <<args, listener, job_log, config, privVars, dumpVars, snmpVars, raceVars>>

\* state.state = load_state_from_file(...) or ZinoState(); init_event_loop(args)
LoadState ==
    /\ pc = "load_state"
    /\ main_log' = Append(main_log, Step("load_state", "ok"))
    /\ pc' = "open_listener"
    /\ UNCHANGED <<args, listener, exit_code, job_log, config, privVars, dumpVars,
                   snmpVars, raceVars>>

InitMain ==
    /\ args \in [trap_port : TrapPorts, user : {NoUser, "zino"}, stop_in : {0},
                 config_file : BOOLEAN]
    /\ pc = "load_config"
    /\ listener = "closed"
    /\ exit_code = -1
    /\ job_log = <<>>
    /\ identity \in {RootIdentity, ZinoIdentity}
    /\ switch_log = <<>>
    /\ now = 0
    /\ next_run_time = NoTime
    /\ last_call = NoCall
    /\ burst = NoBurst
    /\ runs = NoRuns
    /\ config = "unset"
    /\ main_log = <<>>
    /\ SnmpIdle
    /\ RaceIdle

NextMain ==
    \/ LoadConfig
    \/ ApplyLoggingConfig
    \/ CheckSecretsFile
    \/ InitBackend
    \/ LoadState
    \/ Next

SpecMain == InitMain /\ [][NextMain]_vars

-----------------------------------------------------------------------------
(* SNMP sessions: _get_engine, SNMP.mp_model and SNMP.get of snmp.py.      *)

\* the devices polled: the hcounters flag and, to tell devices apart, the port
Devices == [hcounters : BOOLEAN, port : {161, 1161}]

\* what getCmd hands back: an error indication, an error status with its
\* error index, or the variable bindings (their number)
Responses ==
    {[kind |-> "indication", error_index |-> 0, binds |-> 0]}
    \cup {[kind |-> "status", error_index |-> i, binds |-> 0] : i \in 0..MaxErrorIndex}
    \cup {[kind |-> "success", error_index |-> 0, binds |-> b] : b \in 1..2}

\* a _local that is one module-level object shared by all threads
local_slot_shared(t) == 1

\* _local = threading.local(): every thread has its own snmp_engine attribute
local_slot(t) == t

\* _get_engine called by thread t: the engine returned and the new _local
get_engine(local, engines, t) ==
    IF local[local_slot(t)] = 0
    THEN [engine |-> engines + 1, engines |-> engines + 1,
          local |-> [local EXCEPT ![local_slot(t)] = engines + 1]]
    ELSE [engine |-> local[local_slot(t)], engines |-> engines, local |-> local]

\* an mp_model with the two versions the wrong way round
mp_model_swapped(device) == IF device.hcounters THEN 0 ELSE 1

\* SNMP.mp_model: return 1 if self.device.hcounters else 0
mp_model(device) == IF device.hcounters THEN 1 ELSE 0

\* query = [ObjectType(ObjectIdentity(*object))]
query_length == 1

\* an SNMP.get that sends the request again after an error indication
get_result_retry(response) ==
    CASE response.kind = "indication" ->
             [ret |-> "None", logged |-> "indication", again |-> TRUE]
      [] response.kind = "status" ->
             IF response.error_index = 0
             THEN [ret |-> "None", logged |-> "?", again |-> FALSE]
             ELSE IF response.error_index - 1 < query_length
             THEN [ret |-> "None", logged |-> "object", again |-> FALSE]
             ELSE [ret |-> "IndexError", logged |-> "-", again |-> FALSE]
      [] response.kind = "success" ->
             [ret |-> "value", logged |-> "-", again |-> FALSE]

\* SNMP.get after the await: what it returns (or the exception that escapes),
\* what it logs as the offending object, and whether it sends a request again
get_result(response) ==
    CASE response.kind = "indication" ->
             [ret |-> "None", logged |-> "indication", again |-> FALSE]
      [] response.kind = "status" ->
             \* error_index and query[int(error_index) - 1][0] or "?"
             IF response.error_index = 0
             THEN [ret |-> "None", logged |-> "?", again |-> FALSE]
             ELSE IF response.error_index - 1 < query_length
             THEN [ret |-> "None", logged |-> "object", again |-> FALSE]
             ELSE [ret |-> "IndexError", logged |-> "-", again |-> FALSE]
      [] response.kind = "success" ->
             \* for var_bind in var_binds: return value
             [ret |-> "value", logged |-> "-", again |-> FALSE]

\* SNMP.get up to its await: _get_engine(), mp_model, one getCmd request
GetCall(t) ==
    /\ pc = "snmp"
    /\ snmp_get[t].pc \in {"idle", "done"}
    /\ snmp_get[t].n < MaxGets
    /\ \E device \in Devices :
          LET e == get_engine(snmp_local, snmp_engines, t) IN
          /\ snmp_local' = e.local
          /\ snmp_engines' = e.engines
          /\ snmp_handles' = [snmp_handles EXCEPT ![t] = @ \cup {e.engine}]
          /\ snmp_get' = [snmp_get EXCEPT ![t] =
                 [pc |-> "awaiting", n |-> @.n + 1, hcounters |-> device.hcounters,
                  port |-> device.port, engine |-> e.engine,
                  mpModel |-> mp_model(device), requests |-> 1, outcome |-> "-",
                  error_index |-> 0, ret |-> "-", logged |-> "-"]]
    /\ UNCHANGED <<bootVars, privVars, dumpVars, mainVars, raceVars>>

\* SNMP.get from the completion of getCmd to its return
GetReturn(t) ==
    /\ pc = "snmp"
    /\ snmp_get[t].pc = "awaiting"
    /\ \E response \in Responses :
          LET r == get_result(response) IN
          snmp_get' = [snmp_get EXCEPT ![t] =
              IF r.again
              THEN [@ EXCEPT !.requests = @ + 1]
              ELSE [@ EXCEPT !.pc = "done", !.outcome = response.kind,
                             !.error_index = response.error_index,
                             !.ret = r.ret, !.logged = r.logged]]
    /\ UNCHANGED <<snmp_local, snmp_engines, snmp_handles, bootVars, privVars, dumpVars,
                   mainVars, raceVars>>

InitSnmp ==
    /\ args = [trap_port |-> 0, user |-> NoUser, stop_in |-> 0, config_file |-> FALSE]
    /\ pc = "snmp"
    /\ listener = "closed"
    /\ exit_code = -1
    /\ job_log = <<>>
    /\ identity = ZinoIdentity
    /\ switch_log = <<>>
    /\ now = 0
    /\ next_run_time = NoTime
    /\ last_call = NoCall
    /\ burst = NoBurst
    /\ runs = NoRuns
    /\ MainDone
    /\ SnmpIdle
    /\ RaceIdle

NextSnmp ==
    \/ \E t \in Threads : GetCall(t)
    \/ \E t \in Threads : GetReturn(t)

SpecSnmp == InitSnmp /\ [][NextSnmp]_vars

-----------------------------------------------------------------------------
(* reschedule_dump_state statement by statement, called from the observers *)
(* of several threads while the scheduler runs the dump job on its own.    *)

\* next_run = datetime.now(tz=...) + MINIMUM_STATE_DUMP_INTERVAL
RescheduleCompute(via) ==
    /\ ObserversLive
    /\ in_flight[via].pc = "idle"
    /\ in_flight[via].n < MaxRaceCalls
    /\ in_flight' = [in_flight EXCEPT ![via] =
           [pc |-> "computed", n |-> @.n + 1,
            next_run |-> now + MINIMUM_STATE_DUMP_INTERVAL, read |-> NoTime]]
    /\ UNCHANGED <<last_write, bootVars, privVars, dumpVars, mainVars, snmpVars>>

\* if job.next_run_time > next_run:
RescheduleCompare(via) ==
    /\ in_flight[via].pc = "computed"
    /\ in_flight' = [in_flight EXCEPT ![via] =
           IF next_run_time > @.next_run
           THEN [@ EXCEPT !.pc = "modify", !.read = next_run_time]
           ELSE [NoFlight EXCEPT !.n = in_flight[via].n]]
    /\ UNCHANGED <<last_write, bootVars, privVars, dumpVars, mainVars, snmpVars>>

\* job.modify(next_run_time=next_run)
RescheduleModify(via) ==
    /\ in_flight[via].pc = "modify"
    /\ next_run_time' = in_flight[via].next_run
    /\ last_write' = [via |-> via, read |-> in_flight[via].read,
                      found |-> next_run_time, wrote |-> in_flight[via].next_run]
    /\ runs' = [runs EXCEPT !.pending = TRUE]
    /\ in_flight' = [in_flight EXCEPT ![via] = [NoFlight EXCEPT !.n = in_flight[via].n]]
    /\ UNCHANGED <<now, last_call, burst, bootVars, privVars, mainVars, snmpVars>>

\* the clock while the calls are followed statement by statement
RaceTick == TickUpTo(MaxRaceTime)

InitRace == InitDebounce

NextRace ==
    \/ \E via \in CallSites : RescheduleCompute(via)
    \/ \E via \in CallSites : RescheduleCompare(via)
    \/ \E via \in CallSites : RescheduleModify(via)
    \/ RunDumpJob
    \/ RaceTick

SpecRace == InitRace /\ [][NextRace]_vars

-----------------------------------------------------------------------------
(* Properties of the debounced rescheduling, under SpecDebounce.           *)

Min(a, b) == IF a <= b THEN a ELSE b

\* the calls of the burst were made without the job running in between
BurstUnfired == burst.n > 0 /\ ~burst.fired

\* all calls of the burst fall in a window shorter than the minimum interval
BurstInWindow == burst.n > 0 /\ burst.last - burst.first < MINIMUM_STATE_DUMP_INTERVAL

\* C1 as stated: after every call of a sequence of reschedule_dump_state calls,
\* each made less than MINIMUM_STATE_DUMP_INTERVAL after the previous one with
\* no run of the job in between, the job's next_run_time is never earlier than
\* first_call_time + MINIMUM_STATE_DUMP_INTERVAL and never later than T.
C1_AsStated ==
    BurstUnfired =>
        /\ burst.after >= burst.first + MINIMUM_STATE_DUMP_INTERVAL
        /\ burst.after <= burst.T

\* C1 amended: after every call of such a sequence the job's next_run_time is
\* never earlier than the smaller of T and first_call_time +
\* MINIMUM_STATE_DUMP_INTERVAL, and never later than T.
C1_DebounceBounds ==
    BurstUnfired =>
        /\ burst.after >= Min(burst.T, burst.first + MINIMUM_STATE_DUMP_INTERVAL)
        /\ burst.after <= burst.T

\* three calls spread over time and a job that was due before the floor
C1_Witness ==
    /\ BurstUnfired
    /\ burst.n >= 3
    /\ burst.last > burst.first
    /\ burst.T < burst.first + MINIMUM_STATE_DUMP_INTERVAL
    /\ burst.after = burst.T

\* C2: for a burst of notifications within a window shorter than
\* MINIMUM_STATE_DUMP_INTERVAL and an initial next_run_time T later than
\* t1 + MINIMUM_STATE_DUMP_INTERVAL, the final next_run_time is exactly
\* t1 + MINIMUM_STATE_DUMP_INTERVAL, set by the first notification alone,
\* whichever observer delivers the notifications.
C2_BurstFixedByFirst ==
    (BurstInWindow /\ burst.T > burst.first + MINIMUM_STATE_DUMP_INTERVAL) =>
        /\ burst.after = burst.first + MINIMUM_STATE_DUMP_INTERVAL
        /\ burst.mods = <<[from |-> burst.T, to |-> burst.after]>>
        /\ ~burst.fired

\* notifications at 0s, 2s and 4s through both observers, T = 60s, give 10s
C2_Witness ==
    /\ burst.first = 0
    /\ burst.last = 4
    /\ burst.n = 3
    /\ last_call.at = 4
    /\ burst.T = 60
    /\ burst.vias = {"commit", "pm_change"}
    /\ burst.after = 10
    /\ next_run_time = 10

\* C3: one reschedule_dump_state call at time now leaves next_run_time at
\* min(old, now + MINIMUM_STATE_DUMP_INTERVAL): an old value strictly later than
\* the candidate is rewritten to the candidate, an old value at or before it
\* is left alone without a job.modify call; the call never moves the run later
\* and never to a time before now + MINIMUM_STATE_DUMP_INTERVAL.
C3_SingleCall ==
    last_call.at # NoTime =>
        LET candidate == last_call.at + MINIMUM_STATE_DUMP_INTERVAL IN
        /\ last_call.after = Min(last_call.read, candidate)
        /\ last_call.read > candidate => (last_call.modified /\ last_call.after = candidate)
        /\ last_call.read <= candidate => (~last_call.modified /\ last_call.after = last_call.read)
        /\ last_call.after <= last_call.read
        /\ last_call.modified => last_call.after >= candidate
        /\ ~last_call.fired => next_run_time = last_call.after

\* a call that finds the job scheduled exactly at its candidate
C3_Witness ==
    /\ last_call.at # NoTime
    /\ last_call.read = last_call.at + MINIMUM_STATE_DUMP_INTERVAL
    /\ ~last_call.modified
    /\ next_run_time = last_call.read

\* C4: a burst of notifications within a window shorter than
\* MINIMUM_STATE_DUMP_INTERVAL brings at most one dump run forward; that run is
\* scheduled no sooner than MINIMUM_STATE_DUMP_INTERVAL after the first
\* notification and not later than the run that was scheduled before.
C4_OneExtraDump ==
    BurstInWindow =>
        /\ Len(burst.mods) <= 1
        /\ \A i \in DOMAIN burst.mods :
              /\ burst.mods[i].to >= burst.first + MINIMUM_STATE_DUMP_INTERVAL
              /\ burst.mods[i].to <= burst.mods[i].from

\* a burst during which the interval run happened and one run was brought forward
C4_Witness ==
    /\ BurstInWindow
    /\ burst.n >= 3
    /\ burst.fired
    /\ Len(burst.mods) = 1
    /\ burst.last > burst.first

\* C5: two consecutive runs of the dump job of which the later was brought
\* forward by reschedule_dump_state are at least MINIMUM_STATE_DUMP_INTERVAL
\* apart, and after a notification at time m the job is scheduled no later
\* than m + MINIMUM_STATE_DUMP_INTERVAL.
C5_AtMostOncePerFloor ==
    /\ (runs.forwarded /\ runs.prev # NoTime) =>
           runs.last - runs.prev >= MINIMUM_STATE_DUMP_INTERVAL
    /\ last_call.at # NoTime =>
           last_call.after <= last_call.at + MINIMUM_STATE_DUMP_INTERVAL
    /\ (last_call.at # NoTime /\ ~last_call.fired) =>
           next_run_time <= last_call.at + MINIMUM_STATE_DUMP_INTERVAL

\* two runs exactly one minimum interval apart, the later one brought forward
C5_Witness ==
    /\ runs.forwarded
    /\ runs.prev # NoTime
    /\ runs.last - runs.prev = MINIMUM_STATE_DUMP_INTERVAL

-----------------------------------------------------------------------------
(* Properties of switch_to_user, under SpecSwitch.                         *)

Calls == DOMAIN switch_log

\* the call resolved its user and found a uid other than the process's
Resolved(c) == c.username \in DOMAIN passwd
Differs(c) == Resolved(c) /\ c.before.uid # passwd[c.username].pw_uid

\* position k of the call's syscalls is a completed call of the given name
Done(c, k, name) == c.calls[k].call = name /\ c.calls[k].ok

\* C6: when switch_to_user resolves the user and the uid differs, setuid is
\* never invoked before setgid and then setgroups have completed, and the
\* function returns true only after setuid succeeded.
C6_SetuidLast ==
    \A i \in Calls :
        LET c == switch_log[i] IN
        Differs(c) =>
            /\ \A k \in DOMAIN c.calls :
                  c.calls[k].call = "setuid" =>
                      \E a, b \in 1..(k - 1) :
                          a < b /\ Done(c, a, "setgid") /\ Done(c, b, "setgroups")
            /\ c.ret => (c.calls # <<>> /\ Done(c, Len(c.calls), "setuid"))

\* C7: switch_to_user with a username that does not resolve returns false,
\* makes no setgid, setgroups or setuid call and leaves uid, gid and
\* supplementary groups as they were.
C7_UnknownUser ==
    \A i \in Calls :
        LET c == switch_log[i] IN
        ~Resolved(c) =>
            /\ c.ret = FALSE
            /\ c.calls = <<>>
            /\ c.after = c.before
            /\ (i = Len(switch_log) => identity = c.before)

\* root asked to switch to a user that does not exist
C7_Witness ==
    \E i \in Calls :
        /\ switch_log[i].username = "nosuchuser"
        /\ switch_log[i].before = RootIdentity
        /\ identity = RootIdentity

\* C8: switch_to_user with a username whose uid is the current uid returns
\* true, makes no syscall and leaves the identity unchanged; so a second call
\* after a successful drop to the same user changes nothing.
C8_SameUidNoOp ==
    \A i \in Calls :
        LET c == switch_log[i] IN
        /\ (Resolved(c) /\ ~Differs(c)) =>
               /\ c.ret = TRUE
               /\ c.calls = <<>>
               /\ c.after = c.before
               /\ (i = Len(switch_log) => identity = c.before)
        /\ (i > 1 /\ switch_log[i - 1].ret /\ switch_log[i - 1].calls # <<>>
                  /\ c.username = switch_log[i - 1].username) =>
               (c.ret /\ c.calls = <<>> /\ c.after = switch_log[i - 1].after)

\* a successful drop from root followed by a second call for the same user
C8_Witness ==
    /\ Len(switch_log) = 2
    /\ switch_log[1].before = RootIdentity
    /\ switch_log[1].ret
    /\ switch_log[1].calls # <<>>
    /\ switch_log[2].username = switch_log[1].username
    /\ switch_log[2].ret
    /\ identity = switch_log[1].after

\* C9: after a successful privilege drop that is not the same-uid
\* short-circuit, the supplementary groups are exactly the groups whose
\* membership list contains the username, also when that set is empty.
C9_SupplementaryGroups ==
    \A i \in Calls :
        LET c == switch_log[i] IN
        (c.ret /\ Differs(c)) => c.after.groups = member_gids(c.username)

-----------------------------------------------------------------------------
(* Properties of the bootstrap, under Spec.                                *)

JobsRegistered == job_log # <<>>
DropAttempted == Len(switch_log) > 0

\* C10: the bootstrap opens the trap listener (when enabled), then drops
\* privileges (when --user is given), then registers the jobs, then runs
\* forever: switch_to_user is never called before the listener is open and no
\* job is registered before the privilege drop has been attempted.
C10_BootstrapOrder ==
    /\ (DropAttempted /\ args.trap_port # 0) => listener = "open"
    /\ DropAttempted => args.user # NoUser
    /\ (JobsRegistered /\ args.trap_port # 0) => listener = "open"
    /\ (JobsRegistered /\ args.user # NoUser) => DropAttempted
    /\ pc \in {"serve", "run_forever", "returned"} => JobsRegistered
    /\ pc \in {"open_listener", "drop_privileges", "exited"} =>
           (~JobsRegistered /\ next_run_time = NoTime)
    /\ pc = "open_listener" => (~DropAttempted /\ listener = "closed")

\* root opened port 162, dropped to another user, registered the jobs and waits
C10_Witness ==
    /\ pc = "run_forever"
    /\ args.trap_port = 162
    /\ listener = "open"
    /\ Len(switch_log) = 1
    /\ switch_log[1].ret
    /\ switch_log[1].calls # <<>>
    /\ identity.uid # 0
    /\ JobsRegistered

\* C11: a permission error while opening the trap listener makes the process
\* exit with the non-zero code EACCES before any privilege drop, job
\* registration or run-forever wait; with --trap-port 0 no listener is opened
\* and the process never exits this way.
C11_BindFailureFatal ==
    /\ (args.trap_port # 0 /\ pc # "open_listener" /\ listener # "open") =>
           (pc = "exited" /\ exit_code = EACCES)
    /\ exit_code # -1 =>
           /\ exit_code = EACCES
           /\ exit_code # 0
           /\ pc = "exited"
           /\ args.trap_port # 0
           /\ listener = "closed"
           /\ ~DropAttempted
           /\ ~JobsRegistered
           /\ next_run_time = NoTime
    /\ args.trap_port = 0 =>
           (listener = "closed" /\ pc # "exited" /\ exit_code = -1)

\* an unprivileged process asked to listen on port 162 and to switch user
C11_Witness ==
    /\ pc = "exited"
    /\ exit_code = EACCES
    /\ args.trap_port = 162
    /\ args.user # NoUser
    /\ identity.uid # 0

-----------------------------------------------------------------------------
(* Properties of main, under SpecMain.                                     *)

ConfigLoadFailed == main_log # <<>> /\ main_log[1].outcome # "ok"

\* the process ended in sys.exit(1) inside load_config and nothing else ran
ExitedInLoadConfig ==
    /\ pc = "exited"
    /\ exit_code = 1
    /\ Len(main_log) = 1
    /\ config = "unset"
    /\ listener = "closed"
    /\ ~DropAttempted
    /\ ~JobsRegistered

\* C12 as stated: whenever loading the configuration fails (file missing or
\* unreadable, invalid TOML, schema validation failure) the process ends with
\* exit(1) and no later bootstrap step runs, with --config-file or without.
C12_AsStated == ConfigLoadFailed => ExitedInLoadConfig

\* C12 amended: invalid TOML and a schema validation failure always, and a
\* missing or unreadable file when --config-file is given, end the process
\* with exit(1) before any later bootstrap step; a missing or unreadable
\* default file without --config-file makes load_config return None and main
\* goes on to apply the logging configuration.
C12_ConfigFailure ==
    ConfigLoadFailed =>
        IF main_log[1].outcome = "OSError" /\ ~args.config_file
        THEN /\ config = "None"
             /\ ~(pc = "exited" /\ Len(main_log) = 1)
             /\ Len(main_log) >= 2 => main_log[2].step = "apply_logging_config"
        ELSE ExitedInLoadConfig

\* the default configuration file does not validate
C12_Witness ==
    /\ ConfigLoadFailed
    /\ main_log[1].outcome = "ValidationError"
    /\ ~args.config_file
    /\ ExitedInLoadConfig

-----------------------------------------------------------------------------
(* Properties of the SNMP sessions, under SpecSnmp.                        *)

Called(t) == snmp_get[t].n > 0
Finished(t) == snmp_get[t].pc = "done"

\* C13: however the _get_engine calls of the threads interleave, every call
\* from one thread returns the same engine, constructed at most once for that
\* thread, and two threads never get the same engine.
C13_EnginePerThread ==
    /\ \A t \in Threads : Cardinality(snmp_handles[t]) <= 1
    /\ \A t \in Threads : Called(t) => snmp_handles[t] = {snmp_get[t].engine}
    /\ \A t, u \in Threads : t # u => snmp_handles[t] \cap snmp_handles[u] = {}
    /\ snmp_engines = Cardinality({t \in Threads : Called(t)})

\* every thread has called _get_engine more than once
C13_Witness ==
    /\ \A t \in Threads : snmp_get[t].n >= 2
    /\ \E t, u \in Threads : snmp_get[t].engine # snmp_get[u].engine

\* C14: the mpModel a query is sent with is 1 (EXTENDED) if and only if the
\* device's hcounters flag is set and 0 (LEGACY) otherwise, whatever the
\* device's other fields, the thread and the engine are.
C14_VersionByFlag ==
    /\ \A t \in Threads :
          Called(t) => snmp_get[t].mpModel = (IF snmp_get[t].hcounters THEN 1 ELSE 0)
    /\ \A t, u \in Threads :
          (Called(t) /\ Called(u) /\ snmp_get[t].hcounters = snmp_get[u].hcounters)
              => snmp_get[t].mpModel = snmp_get[u].mpModel

\* two devices on different ports, one with and one without the flag
C14_Witness ==
    \E t, u \in Threads :
        /\ Called(t) /\ Called(u)
        /\ snmp_get[t].hcounters /\ snmp_get[t].mpModel = 1
        /\ ~snmp_get[u].hcounters /\ snmp_get[u].mpModel = 0
        /\ snmp_get[t].port # snmp_get[u].port

\* C15: an SNMP.get whose exchange reports an error indication returns no
\* value, lets no exception escape and is not retried: every get call issues
\* exactly one request, whatever its outcome.
C15_IndicationNoValue ==
    \A t \in Threads :
        /\ Called(t) => snmp_get[t].requests = 1
        /\ (Finished(t) /\ snmp_get[t].outcome = "indication") => snmp_get[t].ret = "None"

\* a timeout on a query to a device without the hcounters flag
C15_Witness ==
    \E t \in Threads :
        /\ Finished(t)
        /\ snmp_get[t].outcome = "indication"
        /\ ~snmp_get[t].hcounters
        /\ snmp_get[t].mpModel = 0
        /\ snmp_get[t].ret = "None"

\* C16: an SNMP.get whose response carries an error status returns nothing for
\* every value of the error index: an index that is a 1-based position in the
\* submitted object list names that object in the log, every other index is
\* logged as "?", and no exception escapes.
C16_ErrorStatusNoValue ==
    \A t \in Threads :
        (Finished(t) /\ snmp_get[t].outcome = "status") =>
            /\ snmp_get[t].ret = "None"
            /\ snmp_get[t].logged =
                   (IF snmp_get[t].error_index \in 1..query_length THEN "object" ELSE "?")

-----------------------------------------------------------------------------
(* Properties of concurrent rescheduling, under SpecRace.                  *)

\* C17: reading next_run_time, comparing and writing are one atomic step:
\* whatever the interleaving of the calls with each other and with the
\* scheduler running the job, the next_run_time a call overwrites is the one
\* it read, so it never moves a time set by another call later and never
\* reschedules a job that has run since the read.
C17_AtomicReschedule ==
    last_write.via # "-" =>
        /\ last_write.found = last_write.read
        /\ last_write.wrote <= last_write.found

-----------------------------------------------------------------------------
(* Further properties of switch_to_user (SpecSwitch) and the bootstrap.    *)

\* the positions of the call's syscalls that the OS refused
Refused(c) == {k \in DOMAIN c.calls : ~c.calls[k].ok}
Completed(c, name) == \E k \in DOMAIN c.calls : Done(c, k, name)

\* C18: when a call of the setgid, setgroups, setuid sequence fails,
\* switch_to_user returns false, attempts none of the later calls and undoes
\* none of the calls that succeeded: the gid and the supplementary groups stay
\* as the completed calls set them and the uid stays as it was.
C18_FailurePartway ==
    \A i \in Calls :
        LET c == switch_log[i] IN
        Refused(c) # {} =>
            /\ c.ret = FALSE
            /\ Refused(c) = {Len(c.calls)}
            /\ c.after.uid = c.before.uid
            /\ c.after.gid = (IF Completed(c, "setgid") THEN passwd[c.username].pw_gid
                                                         ELSE c.before.gid)
            /\ c.after.groups = (IF Completed(c, "setgroups") THEN member_gids(c.username)
                                                               ELSE c.before.groups)
            /\ (i = Len(switch_log) => identity = c.after)

\* root switching to zino, setuid refused: gid and groups are zino's, uid is 0
C18_Witness ==
    \E i \in Calls :
        LET c == switch_log[i] IN
        /\ c.before = RootIdentity
        /\ c.username = "zino"
        /\ Len(c.calls) = 3
        /\ Refused(c) = {3}
        /\ c.after = [uid |-> 0, gid |-> 1, groups |-> {3, 4}]
        /\ ~c.ret

\* a switch_to_user call that failed after it had changed part of the identity
PartialDrop ==
    \E i \in Calls :
        /\ ~switch_log[i].ret
        /\ Refused(switch_log[i]) # {}
        /\ switch_log[i].after # switch_log[i].before

\* C19: after a privilege drop that failed partway the bootstrap does not go
\* on: it registers no job, starts no server and does not run forever.
C19_PartialDropFatal ==
    PartialDrop =>
        /\ ~JobsRegistered
        /\ pc \notin {"serve", "run_forever", "returned"}

\* the first position of entry e in job_log, 0 when it is absent
Position(e) ==
    IF \E i \in DOMAIN job_log : job_log[i] = e
    THEN CHOOSE i \in DOMAIN job_log : job_log[i] = e /\ \A j \in 1..(i - 1) : job_log[j] # e
    ELSE 0

DumpJobEntry == "add_job:" \o STATE_DUMP_JOB_ID

\* C20: the two observers are registered only after the scheduler was started
\* and the dump job was added under STATE_DUMP_JOB_ID, exactly one job is ever
\* added under that id, and whenever a notification can be delivered, and
\* whenever one was, reschedule_dump_state finds the job.
C20_JobBeforeObservers ==
    /\ \A e \in ObserverEntries :
          Position(e) # 0 =>
              /\ Position("scheduler.start") # 0
              /\ Position("scheduler.start") < Position(DumpJobEntry)
              /\ Position(DumpJobEntry) < Position(e)
    /\ Cardinality({i \in DOMAIN job_log : job_log[i] = DumpJobEntry})
           = (IF JobsRegistered THEN 1 ELSE 0)
    /\ ObserversRegistered => next_run_time # NoTime
    /\ last_call.at # NoTime => last_call.read # NoTime

\* a notification delivered while the bootstrap runs forever found the job
C20_Witness ==
    /\ pc = "run_forever"
    /\ ObserversRegistered
    /\ last_call.at # NoTime
    /\ last_call.read = dump_interval
    /\ last_call.modified
    /\ next_run_time = MINIMUM_STATE_DUMP_INTERVAL

=============================================================================
